---- MODULE Spec2Model ----
(***************************************************************************)
(* Countdown timer of druid/examples/timer.rs.                             *)
(*                                                                         *)
(* The model holds AppData (text, duration, timer_state), the root         *)
(* widget's timer_id, the commands submitted to the root widget and not    *)
(* yet dispatched, the timers requested and not yet fired (each with its   *)
(* token and the time left to its deadline), and the monotonic clock read  *)
(* by Instant::now().                                                      *)
(*                                                                         *)
(* Time is counted in clock units; UnitsPerSec of them make one second,    *)
(* so that a Duration has a whole-second part and a sub-second part.       *)
(* The event loop dispatches one platform event (a click, a timer) at a    *)
(* time and drains the command queue before it takes the next one; the     *)
(* clock may advance between any two steps.                                *)
(***************************************************************************)
EXTENDS Integers, Sequences, FiniteSets, TLC

VARIABLES text, duration, timer_state, timer_id, queue, timers, now, last, ran

vars == <<text, duration, timer_state, timer_id, queue, timers, now, last, ran>>

(* ------------------------------ bounds --------------------------------- *)

\* clock units per second (the sub-second resolution of the model)
UnitsPerSec == 2
\* the largest configured duration, in clock units
MaxDuration == 4
\* the clock stops advancing at MaxTime
MaxTime == 7
\* the most timers pending at once
MaxTimers == 2

(* ----------------------------- constants ------------------------------- *)

\* TIMER_UPDATE_DELAY, taken as one clock unit
TIMER_UPDATE_DELAY == 1
\* TimerToken::INVALID
INVALID == 0
\* the result of checked_sub when the subtraction would be negative
None == -1

CMD_START_TIMER == "start_paint_timer"
CMD_STOP_TIMER == "stop_paint_timer"

(* ------------------------------ TimerState ----------------------------- *)

StateInit == [tag |-> "Init", started_at |-> 0, duration |-> 0]
StateRunning(s, d) == [tag |-> "Running", started_at |-> s, duration |-> d]
StateStopped(d) == [tag |-> "Stopped", started_at |-> 0, duration |-> d]
StateCompleted == [tag |-> "Completed", started_at |-> 0, duration |-> 0]

(* -------------------------- pure functions ----------------------------- *)

\* a subtraction that saturates at zero
saturating_sub(a, b) == IF a >= b THEN a - b ELSE 0

\* Duration::checked_sub: Some(a - b) when a >= b, None otherwise
checked_sub(a, b) == IF a >= b THEN a - b ELSE None

\* Duration::as_secs: the whole seconds, the sub-second part dropped
as_secs(d) == d \div UnitsPerSec

\* format!("{:02}", n): at least two digits, zero padded
Pad2(n) == IF n < 10 THEN "0" \o ToString(n) ELSE ToString(n)

\* duration_as_human_readable with the hours wrapped into a day
duration_as_human_readable_day(d) ==
    LET secs_total == as_secs(d)
        secs == secs_total % 60
        mins_total == secs_total \div 60
        mins == mins_total % 60
        hours == (mins_total \div 60) % 24
    IN  Pad2(hours) \o ":" \o Pad2(mins) \o ":" \o Pad2(secs)

duration_as_human_readable(d) ==
    LET secs_total == as_secs(d)
        secs == secs_total % 60
        mins_total == secs_total \div 60
        mins == mins_total % 60
        hours == mins_total \div 60
    IN  Pad2(hours) \o ":" \o Pad2(mins) \o ":" \o Pad2(secs)

\* update showing the time a Running state has used, not what is left of it
update_elapsed(data, t) ==
    LET ts == data.timer_state IN
    CASE ts.tag = "Init" ->
            [data EXCEPT !.text = duration_as_human_readable(data.duration)]
      [] ts.tag = "Running" ->
            LET duration_passed == t - ts.started_at
                leftover_duration == checked_sub(ts.duration, duration_passed)
            IN  IF leftover_duration # None
                THEN [data EXCEPT !.text = duration_as_human_readable(duration_passed)]
                ELSE [data EXCEPT !.timer_state = StateCompleted,
                                  !.text = duration_as_human_readable(0)]
      [] ts.tag = "Stopped" ->
            [data EXCEPT !.text = duration_as_human_readable(ts.duration)]
      [] ts.tag = "Completed" ->
            [data EXCEPT !.text = duration_as_human_readable(0)]

\* update showing the duration of a Running state, not what is left of it
update_frozen(data, t) ==
    LET ts == data.timer_state IN
    CASE ts.tag = "Init" ->
            [data EXCEPT !.text = duration_as_human_readable(data.duration)]
      [] ts.tag = "Running" ->
            LET duration_passed == t - ts.started_at
                leftover_duration == checked_sub(ts.duration, duration_passed)
            IN  IF leftover_duration # None
                THEN [data EXCEPT !.text = duration_as_human_readable(ts.duration)]
                ELSE [data EXCEPT !.timer_state = StateCompleted,
                                  !.text = duration_as_human_readable(0)]
      [] ts.tag = "Stopped" ->
            [data EXCEPT !.text = duration_as_human_readable(ts.duration)]
      [] ts.tag = "Completed" ->
            [data EXCEPT !.text = duration_as_human_readable(0)]

\* AppData::update, on data = [text, duration, timer_state] with the clock at t;
\* a Running state that has run out is set to Completed and update is called
\* again
RECURSIVE update(_, _)
update(data, t) ==
    LET ts == data.timer_state IN
    CASE ts.tag = "Init" ->
            [data EXCEPT !.text = duration_as_human_readable(data.duration)]
      [] ts.tag = "Running" ->
            LET duration_passed == t - ts.started_at
                leftover_duration == checked_sub(ts.duration, duration_passed)
            IN  IF leftover_duration # None
                THEN [data EXCEPT !.text = duration_as_human_readable(leftover_duration)]
                ELSE update([data EXCEPT !.timer_state = StateCompleted], t)
      [] ts.tag = "Stopped" ->
            [data EXCEPT !.text = duration_as_human_readable(ts.duration)]
      [] ts.tag = "Completed" ->
            [data EXCEPT !.text = duration_as_human_readable(0)]

(* -------------------------- button handlers ---------------------------- *)

\* start_on_click starting a Completed countdown again, as from Init
start_on_click_again(data, t) ==
    CASE data.timer_state.tag \in {"Init", "Completed"} -> StateRunning(t, data.duration)
      [] data.timer_state.tag = "Stopped" -> StateRunning(t, data.timer_state.duration)
      [] OTHER -> data.timer_state

\* start_on_click restarting a Running countdown from its duration
start_on_click_restart(data, t) ==
    CASE data.timer_state.tag = "Init" -> StateRunning(t, data.duration)
      [] data.timer_state.tag = "Stopped" -> StateRunning(t, data.timer_state.duration)
      [] data.timer_state.tag = "Running" -> StateRunning(t, data.timer_state.duration)
      [] OTHER -> data.timer_state

\* start_on_click restarting from the configured duration when Stopped
start_on_click_full(data, t) ==
    CASE data.timer_state.tag = "Init" -> StateRunning(t, data.duration)
      [] data.timer_state.tag = "Stopped" -> StateRunning(t, data.duration)
      [] OTHER -> data.timer_state

\* start_button on_click: the new timer_state
start_on_click(data, t) ==
    CASE data.timer_state.tag = "Init" -> StateRunning(t, data.duration)
      [] data.timer_state.tag = "Stopped" -> StateRunning(t, data.timer_state.duration)
      [] OTHER -> data.timer_state

\* stop_on_click subtracting without the check
stop_on_click_unchecked(data, t) ==
    IF data.timer_state.tag = "Running"
    THEN StateStopped(data.timer_state.duration - (t - data.timer_state.started_at))
    ELSE data.timer_state

\* stop_on_click ending a countdown that is already Stopped
stop_on_click_finish(data, t) ==
    IF data.timer_state.tag = "Running"
    THEN LET duration_passed == t - data.timer_state.started_at
             leftover_duration == checked_sub(data.timer_state.duration, duration_passed)
         IN  IF leftover_duration # None
             THEN StateStopped(leftover_duration)
             ELSE StateCompleted
    ELSE IF data.timer_state.tag = "Stopped" THEN StateCompleted
    ELSE data.timer_state

\* stop_on_click freezing the duration the run began with
stop_on_click_whole(data, t) ==
    IF data.timer_state.tag = "Running"
    THEN LET duration_passed == t - data.timer_state.started_at
             leftover_duration == checked_sub(data.timer_state.duration, duration_passed)
         IN  IF leftover_duration # None
             THEN StateStopped(data.timer_state.duration)
             ELSE StateCompleted
    ELSE data.timer_state

\* stop_button on_click: the new timer_state
stop_on_click(data, t) ==
    IF data.timer_state.tag = "Running"
    THEN LET duration_passed == t - data.timer_state.started_at
             leftover_duration == checked_sub(data.timer_state.duration, duration_passed)
         IN  IF leftover_duration # None
             THEN StateStopped(leftover_duration)
             ELSE StateCompleted
    ELSE data.timer_state

\* reset_on_click leaving a Completed countdown Completed
reset_on_click_unfinished(data, t) ==
    IF data.timer_state.tag = "Completed" THEN data.timer_state ELSE StateInit

\* reset_button on_click: the new timer_state
reset_on_click(data, t) == StateInit

(* ------------------------- RootWidget::event --------------------------- *)

\* ctx.request_timer: a token no pending timer and no widget holds
request_timer(tid, pending) ==
    CHOOSE k \in 1..(Cardinality(pending) + 2) :
        /\ k # tid
        /\ \A p \in pending : p.token # k
        /\ \A j \in 1..(k - 1) : j = tid \/ \E p \in pending : p.token = j

\* event_timer handling every timer event, whatever its token
event_timer_any(id, tid, data, t, fresh) ==
    [timer_id |-> fresh, data |-> update(data, t), armed |-> TRUE, is_handled |-> TRUE]

\* event_timer refreshing the data without requesting the next timer
event_timer_once(id, tid, data, t, fresh) ==
    IF id = tid
    THEN [timer_id |-> tid, data |-> update(data, t), armed |-> FALSE, is_handled |-> TRUE]
    ELSE [timer_id |-> tid, data |-> data, armed |-> FALSE, is_handled |-> FALSE]

\* Event::Timer(id): [timer_id, data, armed, is_handled]
event_timer(id, tid, data, t, fresh) ==
    IF id = tid
    THEN [timer_id |-> fresh, data |-> update(data, t), armed |-> TRUE, is_handled |-> TRUE]
    ELSE [timer_id |-> tid, data |-> data, armed |-> FALSE, is_handled |-> FALSE]

\* event_command keeping the timer token on a Stop command
event_command_armed(sel, tid, data, t, fresh) ==
    IF sel = CMD_START_TIMER
    THEN [timer_id |-> fresh, data |-> update(data, t), armed |-> TRUE, is_handled |-> TRUE]
    ELSE IF sel = CMD_STOP_TIMER
    THEN [timer_id |-> tid, data |-> update(data, t), armed |-> FALSE, is_handled |-> TRUE]
    ELSE [timer_id |-> tid, data |-> data, armed |-> FALSE, is_handled |-> FALSE]

\* event_command setting timer_id only, the data left for the next Tick
event_command_bare(sel, tid, data, t, fresh) ==
    IF sel = CMD_START_TIMER
    THEN [timer_id |-> fresh, data |-> data, armed |-> TRUE, is_handled |-> TRUE]
    ELSE IF sel = CMD_STOP_TIMER
    THEN [timer_id |-> INVALID, data |-> data, armed |-> FALSE, is_handled |-> TRUE]
    ELSE [timer_id |-> tid, data |-> data, armed |-> FALSE, is_handled |-> FALSE]

\* event_command leaving the data as it is on a Stop command
event_command_stale(sel, tid, data, t, fresh) ==
    IF sel = CMD_START_TIMER
    THEN [timer_id |-> fresh, data |-> update(data, t), armed |-> TRUE, is_handled |-> TRUE]
    ELSE IF sel = CMD_STOP_TIMER
    THEN [timer_id |-> INVALID, data |-> data, armed |-> FALSE, is_handled |-> TRUE]
    ELSE [timer_id |-> tid, data |-> data, armed |-> FALSE, is_handled |-> FALSE]

\* Event::Command(cmd): [timer_id, data, armed, is_handled]
event_command(sel, tid, data, t, fresh) ==
    IF sel = CMD_START_TIMER
    THEN [timer_id |-> fresh, data |-> update(data, t), armed |-> TRUE, is_handled |-> TRUE]
    ELSE IF sel = CMD_STOP_TIMER
    THEN [timer_id |-> INVALID, data |-> update(data, t), armed |-> FALSE, is_handled |-> TRUE]
    ELSE [timer_id |-> tid, data |-> data, armed |-> FALSE, is_handled |-> FALSE]

(* ------------------------------ state ---------------------------------- *)

\* last records the latest step for the properties below: op, the kind of
\* step ("launch", "click", "command", "tick" for a timer event the root
\* handled, "stale" for one it passed on); fresh, whether the clock still
\* reads what it read at that step; btn and pre, the button of the latest
\* click and the timer_state before it (for a timer event, "none" and the
\* timer_state before the event); cfg, the duration configured at launch.
\* ran counts the clock units the countdown under way has spent in Running
\* (Running or Stopped now); it is 0 when none is under way (Init, Completed).

\* ran after a step that leaves the phase ts
RanAfter(ts) == IF ts.tag \in {"Init", "Completed"} THEN 0 ELSE ran

AppData == [text |-> text, duration |-> duration, timer_state |-> timer_state]

\* the state main launches the application in, the duration configured
Launched ==
    /\ text = duration_as_human_readable(duration)
    /\ timer_state = StateInit
    /\ timer_id = INVALID
    /\ queue = <<>>
    /\ timers = {}
    /\ now = 0
    /\ last = [op |-> "launch", fresh |-> TRUE, pre |-> StateInit, btn |-> "none",
               cfg |-> duration]
    /\ ran = 0

Init ==
    /\ duration \in 1..MaxDuration
    /\ Launched

\* configured durations in whole seconds for the display format: a second, the
\* 5 minutes of main, 10 minutes, an hour, a day, a hundred hours
FmtSeconds == {1, 5 * 60, 600, 3600, 86400, 360000}

\* the same, in clock units, with every sub-second part
FmtDurations == {s * UnitsPerSec + f : s \in FmtSeconds, f \in 0..(UnitsPerSec - 1)}

FmtInit ==
    /\ duration \in FmtDurations
    /\ Launched

\* a button's on_click: the new timer_state, and the command it submits; the
\* event loop takes a click only once the commands of the event before it
\* have been dispatched
Click(btn, new_state, cmd) ==
    /\ queue = <<>>
    /\ timer_state' = new_state
    /\ queue' = Append(queue, cmd)
    /\ last' = [last EXCEPT !.op = "click", !.fresh = TRUE, !.pre = timer_state,
                             !.btn = btn]
    /\ ran' = RanAfter(new_state)
    /\ UNCHANGED <<text, duration, timer_id, timers, now>>

\* (a Start click adds a pending timer: MaxTimers bounds them)
StartClick ==
    /\ Cardinality(timers) < MaxTimers
    /\ Click("start", start_on_click(AppData, now), CMD_START_TIMER)

StopClick ==
    Click("stop", stop_on_click(AppData, now), CMD_STOP_TIMER)

ResetClick ==
    Click("reset", reset_on_click(AppData, now), CMD_STOP_TIMER)

\* the root widget's state after an event, r = [timer_id, data, armed, is_handled]
Handled(r, pending, h) ==
    /\ timer_id' = r.timer_id
    /\ text' = r.data.text
    /\ duration' = r.data.duration
    /\ timer_state' = r.data.timer_state
    /\ timers' = IF r.armed
                 THEN pending \cup {[token |-> r.timer_id,
                                     delay |-> TIMER_UPDATE_DELAY]}
                 ELSE pending
    /\ last' = h
    /\ ran' = RanAfter(r.data.timer_state)

\* the event loop dispatches the command at the head of the queue
DeliverCommand ==
    /\ queue # <<>>
    /\ queue' = Tail(queue)
    /\ Handled(event_command(Head(queue), timer_id, AppData, now,
                             request_timer(timer_id, timers)),
               timers, [last EXCEPT !.op = "command", !.fresh = TRUE])
    /\ UNCHANGED now

\* a pending timer whose deadline has come fires, once the commands of the
\* event before it have been dispatched; the root widget handles it when it
\* carries timer_id and passes it on to its child, which ignores it, otherwise
TimerFires ==
    /\ queue = <<>>
    /\ \E tm \in timers :
          /\ tm.delay = 0
          /\ LET pending == timers \ {tm}
                 r == event_timer(tm.token, timer_id, AppData, now,
                                  request_timer(timer_id, pending))
             IN  Handled(r, pending,
                         [last EXCEPT !.op = IF r.is_handled THEN "tick" ELSE "stale",
                                      !.fresh = TRUE, !.pre = timer_state,
                                      !.btn = "none"])
    /\ UNCHANGED <<queue, now>>

\* the monotonic clock advances by one unit, up to MaxTime
Advance ==
    /\ now < MaxTime
    /\ now' = now + 1
    /\ timers' = {[tm EXCEPT !.delay = IF tm.delay > 0 THEN tm.delay - 1 ELSE 0] :
                      tm \in timers}
    /\ last' = [last EXCEPT !.fresh = FALSE]
    /\ ran' = IF timer_state.tag = "Running" THEN ran + 1 ELSE ran
    /\ UNCHANGED <<text, duration, timer_state, timer_id, queue>>

Next ==
    \/ StartClick
    \/ StopClick
    \/ ResetClick
    \/ DeliverCommand
    \/ TimerFires
    \/ Advance

Spec == Init /\ [][Next]_vars

\* the same application launched with the long durations
FmtSpec == FmtInit /\ [][Next]_vars

\* the event loop keeps dispatching and the clock keeps advancing
Fairness ==
    /\ WF_vars(DeliverCommand)
    /\ WF_vars(TimerFires)
    /\ WF_vars(Advance)

LiveSpec == Spec /\ Fairness

TypeOK ==
    /\ duration \in 1..MaxDuration
    /\ timer_state.tag \in {"Init", "Running", "Stopped", "Completed"}
    /\ now \in 0..MaxTime
    /\ Len(queue) <= 1
    /\ Cardinality(timers) <= MaxTimers

(* ---------------------------- properties ------------------------------- *)

\* the HH:MM:SS rendering of s whole seconds
HHMMSS(s) == Pad2(s \div 3600) \o ":" \o Pad2((s \div 60) % 60) \o ":" \o Pad2(s % 60)

\* the rendering of a duration of d clock units
Rendering(d) == HHMMSS(d \div UnitsPerSec)

\* duration - (t - started_at) of a Running state, negative when it has run out
Remaining(ts, t) == ts.duration - (t - ts.started_at)

\* the rendering of a phase that is not Running
PhaseText(ts, cfg) ==
    CASE ts.tag = "Init" -> Rendering(cfg)
      [] ts.tag = "Stopped" -> Rendering(ts.duration)
      [] OTHER -> "00:00:00"

\* the root widget has just handled a timer event in a Running phase
TickOfRunning == last.op = "tick" /\ last.fresh /\ last.pre.tag = "Running"

\* C1: a Tick handled in Running{started_at, duration} with remaining =
\* duration - (now - started_at) <= 0, exactly zero included, makes the phase
\* Completed with display 00:00:00; with remaining > 0 the phase stays the same
\* Running and the display shows remaining.
C1_TickCompletesAtZero ==
    TickOfRunning =>
        LET remaining == Remaining(last.pre, now)
        IN  IF remaining <= 0
            THEN timer_state = StateCompleted /\ text = "00:00:00"
            ELSE timer_state = last.pre /\ text = Rendering(remaining)

\* the Stop button has just been clicked in a Running phase
StopOfRunning ==
    /\ last.op = "click" /\ last.fresh
    /\ last.btn = "stop" /\ last.pre.tag = "Running"

\* C2: a Stop click in Running{started_at, duration} gives
\* Stopped{duration - (now - started_at)} only when that difference is
\* strictly positive and Completed otherwise; no Stopped phase carries a zero
\* duration.
C2_StopNeverZero ==
    /\ StopOfRunning =>
          LET remaining == Remaining(last.pre, now)
          IN  IF remaining > 0
              THEN timer_state = StateStopped(remaining)
              ELSE timer_state = StateCompleted
    /\ ~(timer_state.tag = "Stopped" /\ timer_state.duration = 0)

\* the Start button has just been clicked
StartClicked == last.op = "click" /\ last.fresh /\ last.btn = "start"

\* the Start command of a Start click in Init has been handled with no time
\* elapsed since the click
StartedAtOnce ==
    /\ last.op = "command" /\ last.fresh
    /\ last.btn = "start" /\ last.pre.tag = "Init"
    /\ timer_state.tag = "Running" /\ now = timer_state.started_at

\* C3: a Start click in Init gives Running{now, configured duration}, a Start
\* click in Stopped{d} gives Running{now, d}, and the display computed right
\* after Start from Init with no time elapsed renders the configured duration.
C3_StartTransitions ==
    /\ (StartClicked /\ last.pre.tag = "Init") =>
          timer_state = StateRunning(now, last.cfg)
    /\ (StartClicked /\ last.pre.tag = "Stopped") =>
          timer_state = StateRunning(now, last.pre.duration)
    /\ StartedAtOnce =>
          /\ timer_state.duration = last.cfg
          /\ text = Rendering(last.cfg)

C3_Witness ==
    /\ StartedAtOnce
    /\ last.cfg > UnitsPerSec
    /\ last.cfg % UnitsPerSec # 0

\* a requested timer carrying the root widget's current token is pending
TickChainLive == \E tm \in timers : tm.token = timer_id

\* C4: the next Tick is requested only while the phase is Running: in no state
\* with an empty command queue and a phase other than Running is a timer with
\* the root widget's current token pending.
C4_NoTickOutsideRunning ==
    (timer_state.tag # "Running" /\ queue = <<>>) => ~TickChainLive

\* C5: whenever the phase is Running and no command is queued, a requested
\* timer whose token is the root widget's timer_id is pending.
C5_ArmedWhileRunning ==
    (timer_state.tag = "Running" /\ queue = <<>>) =>
        (timer_id # INVALID /\ TickChainLive)

C5_Witness ==
    /\ TickOfRunning
    /\ timer_state.tag = "Running"
    /\ queue = <<>>
    /\ Cardinality(timers) = MaxTimers

\* C6 as stated: in every state, a queued command included, the text is the
\* rendering of the phase when the phase is Init, Stopped or Completed.
C6_TextAlwaysSynced ==
    timer_state.tag # "Running" => text = PhaseText(timer_state, duration)

\* C6: in every state in which no command is queued for the root widget, the
\* text is the rendering of the phase: the configured duration for Init, d for
\* Stopped{d}, 00:00:00 for Completed.
C6_TextSyncedWhenIdle ==
    (queue = <<>> /\ timer_state.tag # "Running") =>
        text = PhaseText(timer_state, duration)

C6_Witness ==
    /\ queue = <<>>
    /\ last.op = "command"
    /\ timer_state.tag = "Stopped"
    /\ Rendering(timer_state.duration) # Rendering(duration)
    /\ text = Rendering(timer_state.duration)

\* the root widget has just handled a command or a timer event with its token
RootHandled == last.op \in {"command", "tick"} /\ last.fresh

\* C7: right after the root widget handles a Start command, a Stop command or
\* a timer event carrying its token, the text is the rendering of the phase at
\* that instant: of duration - (now - started_at), which is not negative, for
\* Running, and of the phase otherwise.
C7_TextAfterHandling ==
    RootHandled =>
        IF timer_state.tag = "Running"
        THEN /\ Remaining(timer_state, now) >= 0
             /\ text = Rendering(Remaining(timer_state, now))
        ELSE text = PhaseText(timer_state, duration)

C7_Witness ==
    /\ TickOfRunning
    /\ timer_state.tag = "Running"
    /\ Remaining(timer_state, now) > 0
    /\ Rendering(Remaining(timer_state, now)) # Rendering(timer_state.duration)

\* C8: a Reset click in any phase sets the phase to Init and leaves the
\* configured duration as it was at launch; once the Stop command it submits
\* is handled, the text is the rendering of that configured duration.
C8_ResetToInit ==
    /\ (last.btn = "reset" /\ last.op \in {"click", "command"}) =>
          (timer_state = StateInit /\ duration = last.cfg)
    /\ (last.btn = "reset" /\ last.op = "command") =>
          (text = Rendering(last.cfg) /\ queue = <<>>)

C8_Witness ==
    /\ last.btn = "reset" /\ last.op = "command"
    /\ last.pre.tag = "Completed"
    /\ text # "00:00:00"

\* Start has just been clicked while Running or Completed, or the command of
\* such a click has just been handled
StartWhileBusy ==
    /\ last.btn = "start" /\ last.op \in {"click", "command"} /\ last.fresh
    /\ last.pre.tag \in {"Running", "Completed"}

\* C10 as stated: after a Start click while Running or Completed, and after
\* its Start command has been handled, the phase is the one before the click.
C10_StartIgnored == StartWhileBusy => timer_state = last.pre

\* C10: a Start click while Running or Completed leaves the phase as it was;
\* after its Start command has been handled the phase is still the one before
\* the click, unless that phase was Running and duration - (now - started_at)
\* is negative when the command is handled, and then it is Completed.
C10_StartIgnoredUnlessRunOut ==
    StartWhileBusy =>
        IF /\ last.op = "command"
           /\ last.pre.tag = "Running"
           /\ Remaining(last.pre, now) < 0
        THEN timer_state = StateCompleted
        ELSE timer_state = last.pre

C10_Witness ==
    /\ StartWhileBusy
    /\ last.op = "command"
    /\ last.pre.tag = "Running"
    /\ timer_state = last.pre
    /\ now > last.pre.started_at

\* a Running phase whose countdown runs out before the clock's bound
RunsOutInTime ==
    /\ timer_state.tag = "Running"
    /\ timer_state.started_at + timer_state.duration < MaxTime

\* the latest click, its command not yet handled, was on Stop or Reset
StopOrResetClicked == last.op = "click" /\ last.btn \in {"stop", "reset"}

\* C9: once the phase is Running, then unless a Stop or Reset click follows,
\* the phase eventually is Completed and the text 00:00:00, the clock
\* advancing and commands and timer events being delivered fairly.
C9_RunningCompletes ==
    RunsOutInTime ~>
        ((timer_state = StateCompleted /\ text = "00:00:00") \/ StopOrResetClicked)

C9_Witness ==
    /\ TickOfRunning
    /\ timer_state = StateCompleted
    /\ text = "00:00:00"
    /\ last.cfg >= UnitsPerSec

\* C11: through any Start and Stop clicks since launch or the latest Reset, the
\* duration carried by Stopped, and what is left of the duration carried by
\* Running, is the configured duration minus the time spent in Running; time
\* spent in Stopped is not deducted.
C11_NoTimeAddedOrLost ==
    /\ timer_state.tag = "Stopped" => timer_state.duration = last.cfg - ran
    /\ timer_state.tag = "Running" => Remaining(timer_state, now) = last.cfg - ran
    /\ (StartClicked /\ last.pre.tag = "Stopped") =>
          timer_state = StateRunning(now, last.cfg - ran)

\* Start, Stop, and Start again, with time spent in Running and outside it
C11_Witness ==
    /\ StartClicked /\ last.pre.tag = "Stopped"
    /\ timer_state.tag = "Running"
    /\ ran > 0 /\ now > ran
    /\ timer_state.duration > 0

\* C12: from a Completed phase, a Start click, a Stop click, a command
\* delivery and a timer event each leave the phase Completed and the text
\* 00:00:00, the clock advancing leaves the phase Completed, and a Reset click
\* makes the phase Init.
C12_CompletedUntilReset ==
    [][timer_state = StateCompleted =>
          /\ (StartClick \/ StopClick \/ DeliverCommand \/ TimerFires) =>
                (timer_state' = StateCompleted /\ text' = "00:00:00")
          /\ Advance => timer_state' = StateCompleted
          /\ ResetClick => timer_state' = StateInit]_vars

\* the Start command of a Start click made in Completed has been handled
C12_Witness ==
    /\ last.op = "command" /\ last.btn = "start"
    /\ last.pre = StateCompleted
    /\ timer_state = StateCompleted
    /\ text = "00:00:00"

\* the whole seconds a text shows
ShownSecs(str) == CHOOSE s \in 0..MaxTime : HHMMSS(s) = str

\* C13: while the phase stays Running, and up to the step that makes it
\* Completed, no step makes the text show more time than before: from one
\* handled Tick to the next the time shown never increases.
C13_ShownTimeNeverIncreases ==
    [][(/\ timer_state.tag = "Running"
        /\ timer_state' \in {timer_state, StateCompleted}) =>
          ShownSecs(text') <= ShownSecs(text)]_vars

\* a handled Tick has left the phase Running with less time shown than the
\* run began with
C13_Witness ==
    /\ TickOfRunning
    /\ timer_state = last.pre
    /\ ShownSecs(text) < as_secs(timer_state.duration)

\* Stop has been clicked in a phase other than Running; its command may have
\* been handled since
StopWhileIdle ==
    /\ last.btn = "stop" /\ last.op \in {"click", "command"}
    /\ last.pre.tag # "Running"

\* C14: a Stop click in Init, Stopped or Completed leaves the phase, and the
\* duration carried by Stopped, unchanged, also after its command is handled
\* and however far the clock has advanced.
C14_StopElsewhereIgnored == StopWhileIdle => timer_state = last.pre

\* Stop clicked in Stopped{d}, d > 0, later than the whole countdown would
\* have taken
C14_Witness ==
    /\ StopWhileIdle
    /\ last.pre.tag = "Stopped"
    /\ timer_state.duration > 0
    /\ now > last.cfg

\* C15: a timer event delivered while the phase is Init, Stopped or Completed,
\* whether the root widget handles it or passes it on, changes neither the
\* phase nor the text.
C15_TickElsewhereChangesNothing ==
    [][(TimerFires /\ timer_state.tag # "Running") =>
          (timer_state' = timer_state /\ text' = text)]_vars

\* a timer event has been handled in a phase other than Running, after the
\* clock has advanced past the configured duration
C15_Witness ==
    /\ last.op = "tick" /\ last.fresh
    /\ last.pre.tag # "Running"
    /\ now > last.cfg

\* the values of TimerState whose durations lie between 0 and the configured
\* duration
BoundedStates ==
    {StateInit, StateCompleted}
        \cup {StateRunning(s, d) : s \in 0..MaxTime, d \in 0..duration}
        \cup {StateStopped(d) : d \in 0..duration}

\* C16: in every reachable state the phase is one of the four, the duration
\* carried by Running or Stopped lies between 0 and the configured duration,
\* and a Stop click or a Tick in Running whose subtraction would be negative
\* has made the phase Completed.
C16_DurationsBounded ==
    /\ timer_state \in BoundedStates
    /\ ((StopOfRunning \/ TickOfRunning) /\ Remaining(last.pre, now) < 0) =>
          timer_state = StateCompleted

\* Stop clicked in Running after the countdown had run out
C16_Witness ==
    /\ StopOfRunning
    /\ Remaining(last.pre, now) < 0
    /\ timer_state = StateCompleted

Digits == <<"0", "1", "2", "3", "4", "5", "6", "7", "8", "9">>

\* n < 100 written with two digits
TwoDigits(n) == Digits[(n \div 10) + 1] \o Digits[(n % 10) + 1]

\* the string the claim gives for s whole seconds: HH = s div 3600 (two digits,
\* more from a hundred hours on), MM = (s div 60) mod 60, SS = s mod 60
ClaimedText(s) ==
    LET hh == s \div 3600
    IN  (IF hh < 100 THEN TwoDigits(hh) ELSE ToString(hh))
            \o ":" \o TwoDigits((s \div 60) % 60) \o ":" \o TwoDigits(s % 60)

\* the duration the text stands for: what is left of a Running phase, the
\* duration of Stopped, the configured duration in Init, zero in Completed
ShownDuration ==
    CASE timer_state.tag = "Running" -> Remaining(timer_state, now)
      [] timer_state.tag = "Stopped" -> timer_state.duration
      [] timer_state.tag = "Init" -> duration
      [] OTHER -> 0

\* C17: whenever the text has just been computed, at launch or by the root
\* widget, it is the zero-padded HH:MM:SS of the whole seconds s of the
\* duration it stands for, the sub-second part dropped: SS = s mod 60,
\* MM = (s div 60) mod 60, HH = s div 3600, not wrapped at 24.
C17_DisplayFormat ==
    (last.op = "launch" \/ RootHandled) =>
        text = ClaimedText(ShownDuration \div UnitsPerSec)

\* configured 600 s, Start, Stop with between 2 and 3 seconds left of the
\* first 3: Stopped with some 597 s, shown as 00:09:57
C17_Witness ==
    /\ last.cfg = 600 * UnitsPerSec
    /\ last.op = "command" /\ last.btn = "stop"
    /\ timer_state.tag = "Stopped"
    /\ timer_state.duration \div UnitsPerSec = 597
    /\ text = "00:09:57"

\* C18: handling a Stop command leaves timer_id INVALID; while it is INVALID a
\* timer that fires is passed on by the root widget, with the text, the phase
\* and timer_id unchanged and no timer requested; and only the handling of a
\* Start command makes timer_id valid again.
C18_StopCancelsTicks ==
    [][/\ (DeliverCommand /\ Head(queue) = CMD_STOP_TIMER) => timer_id' = INVALID
       /\ (TimerFires /\ timer_id = INVALID) =>
             /\ last'.op = "stale"
             /\ text' = text /\ timer_state' = timer_state
             /\ timer_id' = INVALID
             /\ timers' \subseteq timers /\ timers' # timers
       /\ (timer_id = INVALID /\ timer_id' # INVALID) =>
             (DeliverCommand /\ Head(queue) = CMD_START_TIMER)]_vars

\* a timer requested while Running has fired after the Stop command of a Stop
\* click was handled
C18_Witness ==
    /\ last.op = "stale"
    /\ timer_id = INVALID
    /\ timer_state.tag = "Stopped"
    /\ timers = {}

\* the pending timers that carry the root widget's current token
LiveTimers == {tm \in timers : tm.token = timer_id}

\* at most one pending timer carries timer_id
OneLiveChain == Cardinality(LiveTimers) <= 1

\* a timer that does not carry timer_id fires: it is removed, nothing is
\* requested, and the data and timer_id stay as they are
StaleTimersDie ==
    \A tm \in timers :
        (TimerFires /\ tm.token # timer_id /\ tm \notin timers') =>
            /\ timers' = timers \ {tm}
            /\ text' = text /\ timer_state' = timer_state
            /\ timer_id' = timer_id

\* the handling of a Start command
StartHandled == DeliverCommand /\ Head(queue) = CMD_START_TIMER

\* C19 as stated: at most one pending timer carries timer_id, timers requested
\* earlier fire without refreshing the data or requesting a timer, and the
\* number of pending timers does not grow with repeated Starts.
C19_PendingNeverGrows ==
    /\ []OneLiveChain
    /\ [][/\ StaleTimersDie
          /\ (StartHandled /\ timers # {}) =>
                Cardinality(timers') <= Cardinality(timers)]_vars

\* C19: at most one pending timer carries timer_id; a timer requested earlier
\* fires without refreshing the data or requesting a timer; no timer event
\* adds to the pending timers, and a Start command adds exactly one, which
\* stays pending beside the earlier ones until they fire.
C19_OneLiveChain ==
    /\ []OneLiveChain
    /\ [][/\ StaleTimersDie
          /\ TimerFires => Cardinality(timers') <= Cardinality(timers)
          /\ StartHandled => Cardinality(timers') = Cardinality(timers) + 1]_vars

\* a timer requested earlier has fired while a later one, requested by a
\* repeated Start, is pending with timer_id
C19_Witness ==
    /\ last.op = "stale"
    /\ timer_state.tag = "Running"
    /\ Cardinality(LiveTimers) = 1
====
